---- MODULE Spec2Model ----
(***************************************************************************)
(* A model of the hast markup formatter: the nom parsers of src/src/ast    *)
(* (comment, doctype, attribute, element, node sequence) as operators on   *)
(* character sequences, the node -> document policy of src/src/format.rs,  *)
(* and a width-aware document renderer.  A string is a sequence of         *)
(* one-character strings.  The state machine applies the public entry      *)
(* points to an input text and records what they return.                   *)
(***************************************************************************)
EXTENDS Integers, Sequences, FiniteSets, TLC

VARIABLES input,    \* the text handed to the entry point
          config,   \* Configuration: [line_width, indent_width]
          pc,       \* "ready" before a call, "returned" after it
          fn,       \* the entry point that was called
          result,   \* what it returned: [st, rest, val]
          prev,     \* the input of the previous format run (<<>> when none)
          m_remaining,\* Node::parse_many: what is left to parse
          m_buffer,   \* Node::parse_many: the nodes parsed so far
          t_index     \* Node::parse_text: the position of the scan

vars == <<input, config, pc, fn, result, prev, m_remaining, m_buffer, t_index>>

(***************************************************************************)
(* Strings                                                                 *)
(***************************************************************************)
Drop(s, n) == SubSeq(s, n + 1, Len(s))
Take(s, n) == SubSeq(s, 1, n)
StartsWith(s, p) == Len(s) >= Len(p) /\ SubSeq(s, 1, Len(p)) = p
EndsWith(s, p) == Len(s) >= Len(p) /\ SubSeq(s, Len(s) - Len(p) + 1, Len(s)) = p

\* str::find: the 0-based index of the first occurrence of p in s, or -1.
Find(s, p) ==
  LET hits == {i \in 0..(Len(s) - Len(p)) : StartsWith(Drop(s, i), p)}
  IN IF hits = {} THEN -1 ELSE CHOOSE i \in hits : \A j \in hits : i <= j

\* str::rfind: the 0-based index of the last occurrence of p in s, or -1.
RFind(s, p) ==
  LET hits == {i \in 0..(Len(s) - Len(p)) : StartsWith(Drop(s, i), p)}
  IN IF hits = {} THEN -1 ELSE CHOOSE i \in hits : \A j \in hits : i >= j

Contains(s, p) == Find(s, p) >= 0

\* The length of the longest prefix of s whose characters all satisfy P.
PrefixLen(s, P(_)) ==
  IF \A i \in 1..Len(s) : P(s[i]) THEN Len(s)
  ELSE (CHOOSE i \in 1..Len(s) : ~P(s[i]) /\ \A j \in 1..(i - 1) : P(s[j])) - 1

\* The length of the longest suffix of s whose characters all satisfy P.
SuffixLen(s, P(_)) ==
  IF \A i \in 1..Len(s) : P(s[i]) THEN Len(s)
  ELSE Len(s) - (CHOOSE i \in 1..Len(s) : ~P(s[i]) /\ \A j \in (i + 1)..Len(s) : P(s[j]))

UpperChars == <<"A", "B", "C", "D", "E", "F", "G", "H", "I", "J", "K", "L", "M",
                "N", "O", "P", "Q", "R", "S", "T", "U", "V", "W", "X", "Y", "Z">>
LowerChars == <<"a", "b", "c", "d", "e", "f", "g", "h", "i", "j", "k", "l", "m",
                "n", "o", "p", "q", "r", "s", "t", "u", "v", "w", "x", "y", "z">>

LowerChar(c) ==
  IF \E i \in 1..Len(UpperChars) : UpperChars[i] = c
  THEN LowerChars[CHOOSE i \in 1..Len(UpperChars) : UpperChars[i] = c]
  ELSE c

\* str::to_ascii_lowercase
ToAsciiLowercase(s) == [i \in 1..Len(s) |-> LowerChar(s[i])]

(***************************************************************************)
(* Lexical predicates                                                      *)
(***************************************************************************)
\* char::is_whitespace (std), on the characters of the model's alphabet.
IsWhitespace(c) == c \in {" ", "\n", "\t", "\r", "\f"}

\* char::is_ascii_whitespace (std): space, tab, LF, FF, CR.
CharIsAsciiWhitespace(c) == c \in {" ", "\t", "\n", "\f", "\r"}

\* ast::util::is_ascii_whitespace, the predicate the parsers share.
is_ascii_whitespace(c) == CharIsAsciiWhitespace(c)

TrimStart(s) == Drop(s, PrefixLen(s, IsWhitespace))
TrimEnd(s) == Take(s, Len(s) - SuffixLen(s, IsWhitespace))
Trim(s) == TrimEnd(TrimStart(s))

(***************************************************************************)
(* Parse results: IResult<&str, T>, or a panic of the thread.              *)
(***************************************************************************)
Ok(rest, val) == [st |-> "Ok", rest |-> rest, val |-> val]
Err == [st |-> "Err"]
Panic == [st |-> "Panic"]
IsOk(r) == r.st = "Ok"

\* Sequencing (nom's tuple, and `?`): K continues from a success; an error
\* or a panic is the result.
Bind(r, K(_)) == IF r.st = "Ok" THEN K(r) ELSE r

\* A value named once and used by K.
Let(v, K(_)) == K(v)

\* nom alt: the next alternative is tried after an error.
OrElse(r, q) == IF r.st = "Err" THEN q ELSE r

\* nom opt: Some(val) as <<val>>, None as <<>> with nothing consumed from s.
Opt(r, s) ==
  IF r.st = "Ok" THEN Ok(r.rest, <<r.val>>)
  ELSE IF r.st = "Err" THEN Ok(s, <<>>)
  ELSE r

\* nom tag / char: the rest after the literal, or failure.
Tag(s, lit) == IF StartsWith(s, lit) THEN Ok(Drop(s, Len(lit)), lit) ELSE Err

\* nom tag_no_case
TagNoCase(s, lit) ==
  IF Len(s) >= Len(lit) /\ ToAsciiLowercase(Take(s, Len(lit))) = ToAsciiLowercase(lit)
  THEN Ok(Drop(s, Len(lit)), Take(s, Len(lit))) ELSE Err

\* nom take_until: the text before the first occurrence of lit.
TakeUntil(s, lit) ==
  LET at == Find(s, lit)
  IN IF at < 0 THEN Err ELSE Ok(Drop(s, at), Take(s, at))

\* take_while1(is_ascii_whitespace)
Whitespace1(s) ==
  LET n == PrefixLen(s, is_ascii_whitespace)
  IN IF n = 0 THEN Err ELSE Ok(Drop(s, n), Take(s, n))

\* take_while(is_ascii_whitespace): the rest after the run.
SkipWhitespace(s) == Drop(s, PrefixLen(s, is_ascii_whitespace))

(***************************************************************************)
(* Comment::parse                                                          *)
(***************************************************************************)
CommentOpen == <<"<", "!", "-", "-">>
CommentClose == <<"-", "-", ">">>

\* The closure mapped over the raw content between the delimiters: a slice
\* whose start exceeds its end panics.
CommentBody(raw) ==
  LET multiline == Contains(Trim(raw), <<"\n">>)
      start == Find(raw, <<"\n">>) + 1
      end == RFind(raw, <<"\n">>)
  IN IF multiline
     THEN IF start > end THEN Panic ELSE Ok(<<>>, SubSeq(raw, start + 1, end))
     ELSE Ok(<<>>, Trim(raw))

CommentParse(s) ==
  Bind(Tag(s, CommentOpen), LAMBDA a :
  Bind(TakeUntil(a.rest, CommentClose), LAMBDA raw :
  Bind(Tag(raw.rest, CommentClose), LAMBDA c :
  Bind(CommentBody(raw.val), LAMBDA b :
  Ok(c.rest, [kind |-> "Comment", body |-> b.val])))))

(***************************************************************************)
(* Doctype::parse                                                          *)
(***************************************************************************)
LegacyCompat == <<"a", "b", "o", "u", "t", ":", "l", "e", "g", "a", "c", "y",
                  "-", "c", "o", "m", "p", "a", "t">>
DoctypeWord == <<"D", "O", "C", "T", "Y", "P", "E">>
HtmlWord == <<"h", "t", "m", "l">>
SystemWord == <<"S", "Y", "S", "T", "E", "M">>

parse_legacy_string(s) ==
  Bind(TagNoCase(s, SystemWord), LAMBDA a :
  Bind(Whitespace1(a.rest), LAMBDA b :
  OrElse(Tag(b.rest, <<"\"">> \o LegacyCompat \o <<"\"">>),
         Tag(b.rest, <<"'">> \o LegacyCompat \o <<"'">>))))

DoctypeParse(s) ==
  Bind(Tag(s, <<"<">>), LAMBDA a :
  Bind(Tag(a.rest, <<"!">>), LAMBDA b :
  Bind(TagNoCase(b.rest, DoctypeWord), LAMBDA c :
  Bind(Whitespace1(c.rest), LAMBDA d :
  Bind(TagNoCase(d.rest, HtmlWord), LAMBDA e :
  Bind(Opt(Bind(Whitespace1(e.rest), LAMBDA w : parse_legacy_string(w.rest)), e.rest),
       LAMBDA legacy :
  Bind(Tag(legacy.rest, <<">">>), LAMBDA g :
  Ok(g.rest, [kind |-> "Doctype", legacy |-> legacy.val # <<>>]))))))))

(***************************************************************************)
(* Attributes and tag names (ast/element/util.rs)                          *)
(***************************************************************************)
\* The characters parse_attribute_name accepts.  The excluded code points
\* beyond ASCII (U+007F..U+009F and the noncharacters) are outside the
\* alphabet of the model.
IsAttributeNameChar(c) == c \notin {" ", "\"", "'", "/", ">", "="}

parse_attribute_name(s) ==
  LET n == PrefixLen(s, IsAttributeNameChar)
  IN IF n = 0 THEN Err ELSE Ok(Drop(s, n), Take(s, n))

\* U+0060, which a string literal of the module cannot hold.
Backtick == "U+0060"

\* A bug: `=` (U+003D) left out of the excluded range U+003C..=U+003E.
IsUnquotedValueCharWithEquals(c) ==
  ~CharIsAsciiWhitespace(c) /\ c \notin {"\"", "'", "<", ">", Backtick}

\* The characters of an unquoted attribute value: not ASCII whitespace and
\* none of U+0022, U+0027, U+003C..=U+003E, U+0060.
IsUnquotedValueChar(c) ==
  ~CharIsAsciiWhitespace(c) /\ c \notin {"\"", "'", "<", "=", ">", Backtick}

\* delimited(char(q), take_until(q), char(q))
QuotedValue(s, q) ==
  Bind(Tag(s, <<q>>), LAMBDA a :
  Bind(TakeUntil(a.rest, <<q>>), LAMBDA v :
  Bind(Tag(v.rest, <<q>>), LAMBDA c :
  Ok(c.rest, v.val))))

UnquotedValue(s) ==
  LET n == PrefixLen(s, IsUnquotedValueChar)
  IN IF n = 0 THEN Err ELSE Ok(Drop(s, n), Take(s, n))

\* alt((double-quoted, single-quoted, unquoted))
AttributeValue(s) ==
  OrElse(QuotedValue(s, "\""), OrElse(QuotedValue(s, "'"), UnquotedValue(s)))

\* An attribute is [name, value]; value is <<>> (None) or <<v>> (Some(v)).
parse_attribute(s) ==
  Bind(parse_attribute_name(s), LAMBDA n :
  Bind(Opt(Bind(Tag(SkipWhitespace(n.rest), <<"=">>), LAMBDA eq :
                AttributeValue(SkipWhitespace(eq.rest))),
           n.rest), LAMBDA v :
  Ok(v.rest, [name |-> n.val, value |-> v.val])))

IsTagNameEnd(c) == CharIsAsciiWhitespace(c) \/ c = "/" \/ c = ">"
IsTagNameChar(c) == ~IsTagNameEnd(c)

\* take_till: the run may be empty, so parse_tag_name never fails.
parse_tag_name(s) ==
  LET n == PrefixLen(s, IsTagNameChar)
  IN Ok(Drop(s, n), Take(s, n))

(***************************************************************************)
(* Element (ast/element/mod.rs) and Node (ast/mod.rs)                      *)
(***************************************************************************)
VoidNames ==
  { <<"a", "r", "e", "a">>, <<"b", "a", "s", "e">>, <<"b", "r">>,
    <<"c", "o", "l">>, <<"e", "m", "b", "e", "d">>, <<"h", "r">>,
    <<"i", "m", "g">>, <<"i", "n", "p", "u", "t">>, <<"l", "i", "n", "k">>,
    <<"m", "e", "t", "a">>, <<"p", "a", "r", "a", "m">>,
    <<"s", "o", "u", "r", "c", "e">>, <<"t", "r", "a", "c", "k">>,
    <<"w", "b", "r">> }

parse_end_tag(s) ==
  Bind(Tag(s, <<"<">>), LAMBDA a :
  Bind(Tag(a.rest, <<"/">>), LAMBDA b :
  Bind(parse_tag_name(b.rest), LAMBDA n :
  Bind(Tag(SkipWhitespace(n.rest), <<">">>), LAMBDA e :
  Ok(e.rest, n.val)))))

RECURSIVE ParseAttributes(_, _)

\* A bug: each attribute put in front of those parsed before it.
ParseAttributesReversed(s, acc) ==
  OrElse(Bind(Bind(Whitespace1(s), LAMBDA w : parse_attribute(w.rest)), LAMBDA a :
              ParseAttributes(a.rest, <<a.val>> \o acc)),
         Ok(s, acc))

\* many0(preceded(take_while1(is_ascii_whitespace), parse_attribute))
ParseAttributes(s, acc) ==
  OrElse(Bind(Bind(Whitespace1(s), LAMBDA w : parse_attribute(w.rest)), LAMBDA a :
              ParseAttributes(a.rest, Append(acc, a.val))),
         Ok(s, acc))

\* The start tag: `<` name attributes [`/`] `>`.
ParseStartTag(s) ==
  Bind(Tag(s, <<"<">>), LAMBDA a :
  Bind(parse_tag_name(a.rest), LAMBDA n :
  Bind(ParseAttributes(n.rest, <<>>), LAMBDA attrs :
  Bind(Opt(Tag(SkipWhitespace(attrs.rest), <<"/">>), SkipWhitespace(attrs.rest)),
       LAMBDA solidus :
  Bind(Tag(solidus.rest, <<">">>), LAMBDA e :
  Ok(e.rest, [name |-> n.val, attributes |-> attrs.val,
              self_closing |-> solidus.val # <<>>]))))))

\* A bug: the tag name matched against the void names as written.
IsVoidCaseSensitive(name, self_closing) ==
  name \in VoidNames \/ self_closing

\* The matches! on the lowercased name, or a solidus.
IsVoid(name, self_closing) ==
  ToAsciiLowercase(name) \in VoidNames \/ self_closing

\* A bug: the end-tag name compared without regard to letter case.
NamesEqualIgnoringCase(name, end_name) ==
  ToAsciiLowercase(name) = ToAsciiLowercase(end_name)

\* The comparison of the start-tag name with the end-tag name (`name != end_name`).
NamesEqual(name, end_name) == name = end_name

RECURSIVE ElementParse(_), parse_non_text(_), ParseTextLoop(_, _), ParseManyLoop(_, _)

\* Node::parse_many
parse_many(s) == ParseManyLoop(TrimStart(s), <<>>)

\* Element::parse
ElementParse(s) ==
  Bind(ParseStartTag(s), LAMBDA t :
  IF IsVoid(t.val.name, t.val.self_closing)
  THEN Ok(t.rest, [kind |-> "Void", name |-> t.val.name,
                   attributes |-> t.val.attributes])
  ELSE Bind(parse_many(t.rest), LAMBDA content :
       Bind(parse_end_tag(content.rest), LAMBDA e :
       IF ~NamesEqual(t.val.name, e.val) THEN Err
       ELSE Ok(e.rest, [kind |-> "Normal", name |-> t.val.name,
                        attributes |-> t.val.attributes,
                        content |-> content.val]))))

\* alt((Comment::parse, Doctype::parse, Element::parse))
parse_non_text(s) ==
  OrElse(CommentParse(s), OrElse(DoctypeParse(s), ElementParse(s)))

Text(body) == [kind |-> "Text", body |-> body]

\* A bug: the scan does not test for an end tag at a `<`.
ParseTextLoopNoEndTag(s, index) ==
  Let(Find(Drop(s, index), <<"<">>), LAMBDA delta :
  IF delta < 0 THEN Ok(<<>>, <<Text(TrimEnd(s)), <<>> >>)
  ELSE Let(parse_non_text(Drop(s, index + delta)), LAMBDA n :
       IF n.st = "Panic" THEN Panic
       ELSE IF IsOk(n)
       THEN Ok(n.rest, <<Text(TrimEnd(Take(s, index + delta))), <<n.val>> >>)
       ELSE ParseTextLoop(s, index + delta + 1)))

\* The loop of Node::parse_text over the trimmed input, index being the
\* place the search for `<` resumes from; val is <<text, next>> with next
\* the sequence of zero or one non-text node.
ParseTextLoop(s, index) ==
  Let(Find(Drop(s, index), <<"<">>), LAMBDA delta :
  IF delta < 0 THEN Ok(<<>>, <<Text(TrimEnd(s)), <<>> >>)
  ELSE IF IsOk(parse_end_tag(Drop(s, index + delta)))
  THEN Ok(Drop(s, index + delta), <<Text(TrimEnd(Take(s, index + delta))), <<>> >>)
  ELSE Let(parse_non_text(Drop(s, index + delta)), LAMBDA n :
       IF n.st = "Panic" THEN Panic
       ELSE IF IsOk(n)
       THEN Ok(n.rest, <<Text(TrimEnd(Take(s, index + delta))), <<n.val>> >>)
       ELSE ParseTextLoop(s, index + delta + 1)))

\* Node::parse_text
parse_text(s) ==
  IF TrimStart(s) = <<>> THEN Err ELSE ParseTextLoop(TrimStart(s), 0)

\* The loop of Node::parse_many.
ParseManyLoop(remaining, buffer) ==
  IF IsOk(parse_end_tag(remaining)) THEN Ok(remaining, buffer)
  ELSE IF remaining = <<>> THEN Ok(<<>>, buffer)
  ELSE Let(parse_non_text(TrimStart(remaining)), LAMBDA n :
       IF n.st = "Panic" THEN Panic
       ELSE IF IsOk(n) THEN ParseManyLoop(TrimStart(n.rest), Append(buffer, n.val))
       ELSE Bind(parse_text(remaining), LAMBDA t :
            ParseManyLoop(TrimStart(t.rest), Append(buffer, t.val[1]) \o t.val[2])))

(***************************************************************************)
(* Documents and their renderer (the pretty crate's Doc, spec section 4.5) *)
(***************************************************************************)
Nil == [t |-> "nil"]
TextDoc(s) == [t |-> "text", s |-> s]
Line == [t |-> "line"]
Line_ == [t |-> "line_"]
Hardline == [t |-> "hardline"]
Nest(n, d) == [t |-> "nest", n |-> n, d |-> d]
Group(d) == [t |-> "group", d |-> d]
Cat(ds) == [t |-> "cat", ds |-> ds]

Spaces(n) == [i \in 1..n |-> " "]

\* Whether the commands, a sequence of <<mode, doc>>, fit on the rest of the
\* line: the scan ends at the first separator that is laid out broken.  One
\* command of the scan: the answer, or the commands and the column after it.
FitsStep(cmds, pos, width) ==
  LET mode == cmds[1][1]
      d == cmds[1][2]
      rest == Tail(cmds)
      answer(v) == [done |-> TRUE, value |-> v, cmds |-> <<>>, pos |-> pos]
      go(c, p) == [done |-> FALSE, value |-> TRUE, cmds |-> c, pos |-> p]
  IN CASE d.t = "nil" -> go(rest, pos)
       [] d.t = "cat" -> go([i \in 1..Len(d.ds) |-> <<mode, d.ds[i]>>] \o rest, pos)
       [] d.t = "text" ->
            IF pos + Len(d.s) > width THEN answer(FALSE) ELSE go(rest, pos + Len(d.s))
       [] d.t = "hardline" -> answer(mode = "Break")
       [] d.t = "line" ->
            IF mode = "Break" THEN answer(TRUE)
            ELSE IF pos + 1 > width THEN answer(FALSE)
            ELSE go(rest, pos + 1)
       [] d.t = "line_" -> IF mode = "Break" THEN answer(TRUE) ELSE go(rest, pos)
       [] OTHER -> go(<< <<mode, d.d>> >> \o rest, pos)

RECURSIVE Fits(_, _, _)
Fits(cmds, pos, width) ==
  IF cmds = <<>> THEN TRUE
  ELSE LET s == FitsStep(cmds, pos, width)
       IN IF s.done THEN s.value ELSE Fits(s.cmds, s.pos, width)

\* The renderer: cmds is a stack of <<indentation, mode, doc>>, pos the
\* current column, out the text written so far.  One command of the stack:
\* the stack, the column and the text after it.
RenderStep(cmds, pos, out, width) ==
  LET ind == cmds[1][1]
      mode == cmds[1][2]
      d == cmds[1][3]
      rest == Tail(cmds)
      newline == out \o <<"\n">> \o Spaces(ind)
      go(c, p, o) == [cmds |-> c, pos |-> p, out |-> o]
  IN CASE d.t = "nil" -> go(rest, pos, out)
       [] d.t = "cat" ->
            go([i \in 1..Len(d.ds) |-> <<ind, mode, d.ds[i]>>] \o rest, pos, out)
       [] d.t = "text" -> go(rest, pos + Len(d.s), out \o d.s)
       [] d.t = "hardline" -> go(rest, ind, newline)
       [] d.t = "line" ->
            IF mode = "Break" THEN go(rest, ind, newline)
            ELSE go(rest, pos + 1, out \o <<" ">>)
       [] d.t = "line_" ->
            IF mode = "Break" THEN go(rest, ind, newline) ELSE go(rest, pos, out)
       [] d.t = "nest" -> go(<< <<ind + d.n, mode, d.d>> >> \o rest, pos, out)
       [] d.t = "group" ->
            LET ahead == << <<"Flat", d.d>> >>
                           \o [i \in 1..Len(rest) |-> <<"Break", rest[i][3]>>]
                flat == mode = "Flat" \/ Fits(ahead, pos, width)
            IN go(<< <<ind, IF flat THEN "Flat" ELSE "Break", d.d>> >> \o rest, pos, out)

RECURSIVE Render(_, _, _, _)
Render(cmds, pos, out, width) ==
  IF cmds = <<>> THEN out
  ELSE LET s == RenderStep(cmds, pos, out, width)
       IN Render(s.cmds, s.pos, s.out, width)

\* render_fmt of a whole document at the given width.
RenderDoc(d, width) == Render(<< <<0, "Break", d>> >>, 0, <<>>, width)

\* The words of a text: its maximal runs of non-whitespace characters.
RECURSIVE Words(_)
Words(s) ==
  LET t == TrimStart(s)
      n == PrefixLen(t, LAMBDA c : ~IsWhitespace(c))
  IN IF t = <<>> THEN <<>> ELSE <<Take(t, n)>> \o Words(Drop(t, n))

\* reflow: the words joined by separators that each break on their own.
Reflow(s) ==
  LET w == Words(s)
  IN Cat([i \in 1..(2 * Len(w) - 1) |->
            IF i % 2 = 1 THEN TextDoc(w[(i + 1) \div 2]) ELSE Group(Line)])

(***************************************************************************)
(* The formatting policy (format.rs)                                       *)
(***************************************************************************)
\* str::lines: split at "\n", a final empty line dropped, a trailing "\r"
\* of each line removed.
RECURSIVE Lines(_)
Lines(s) ==
  LET at == Find(s, <<"\n">>)
      strip(l) == IF EndsWith(l, <<"\r">>) THEN Take(l, Len(l) - 1) ELSE l
  IN IF s = <<>> THEN <<>>
     ELSE IF at < 0 THEN <<strip(s)>>
     ELSE <<strip(Take(s, at))>> \o Lines(Drop(s, at + 1))

pretty_comment(comment, cfg) ==
  IF comment = <<>> THEN TextDoc(<<"<", "!", "-", "-", "-", "-", ">">>)
  ELSE LET ls == Lines(comment)
           single == Len(ls) < 2
           body == Cat([i \in 1..Len(ls) |-> Cat(<<Line, TextDoc(ls[i])>>)])
           buffer == Cat(<<IF single THEN Nest(cfg.indent_width, body) ELSE body,
                           IF single THEN Line ELSE Hardline>>)
       IN Group(Cat(<<TextDoc(CommentOpen), buffer, TextDoc(CommentClose)>>))

DoctypeLiteral(legacy) ==
  IF legacy
  THEN <<"<", "!", "D", "O", "C", "T", "Y", "P", "E", " ", "h", "t", "m", "l", " ",
         "S", "Y", "S", "T", "E", "M", " ", "\"">> \o LegacyCompat \o <<"\"", ">">>
  ELSE <<"<", "!", "D", "O", "C", "T", "Y", "P", "E", " ", "h", "t", "m", "l", ">">>

\* A bug: the legacy flag ignored.
PrettyDoctypeNeverLegacy(legacy) == TextDoc(DoctypeLiteral(FALSE))

pretty_doctype(legacy) == TextDoc(DoctypeLiteral(legacy))

pretty_text(text) == IF text = <<>> THEN Nil ELSE Reflow(text)

\* One attribute: line, the name and, with a value, ="value".
PrettyAttribute(a) ==
  Cat(<<Line, TextDoc(a.name)>>
      \o (IF a.value = <<>> THEN <<>>
          ELSE <<TextDoc(<<"=">>), TextDoc(<<"\"">>), TextDoc(a.value[1]),
                 TextDoc(<<"\"">>)>>))

\* The start of an element's document: `<name` and the attribute group.
PrettyStart(name, attributes, cfg) ==
  Cat(<<TextDoc(<<"<">>), TextDoc(name)>>
      \o (IF attributes = <<>> THEN <<>>
          ELSE <<Group(Cat(<<Nest(cfg.indent_width,
                                   Cat([i \in 1..Len(attributes) |->
                                          PrettyAttribute(attributes[i])])),
                             Line_>>))>>))

RECURSIVE pretty_node(_, _), pretty_element(_, _)

\* A bug: force_multiline ignored, every child preceded by line_.
PrettyElementNeverForced(el, cfg) ==
  IF el.kind = "Void"
  THEN Cat(<<PrettyStart(el.name, el.attributes, cfg), TextDoc(<<"/", ">">>)>>)
  ELSE Group(Cat(<<PrettyStart(el.name, el.attributes, cfg), TextDoc(<<">">>)>>
                 \o (IF el.content = <<>> THEN <<>>
                     ELSE <<Group(Cat(<<Nest(cfg.indent_width,
                                             Cat([i \in 1..Len(el.content) |->
                                                    Cat(<<Line_, pretty_node(el.content[i], cfg)>>)])),
                                        Line_>>))>>)
                 \o <<TextDoc(<<"<", "/">>), TextDoc(el.name), TextDoc(<<">">>)>>))

pretty_element(el, cfg) ==
  IF el.kind = "Void"
  THEN Cat(<<PrettyStart(el.name, el.attributes, cfg), TextDoc(<<"/", ">">>)>>)
  ELSE LET nodes == el.content
           force_multiline ==
             nodes # <<>> /\ \A i \in 1..Len(nodes) : nodes[i].kind # "Text"
           children ==
             Cat([i \in 1..Len(nodes) |->
                    Cat(<<IF force_multiline THEN Hardline ELSE Line_,
                          pretty_node(nodes[i], cfg)>>)])
       IN Group(Cat(<<PrettyStart(el.name, el.attributes, cfg), TextDoc(<<">">>)>>
                    \o (IF nodes = <<>> THEN <<>>
                        ELSE <<Group(Cat(<<Nest(cfg.indent_width, children), Line_>>))>>)
                    \o <<TextDoc(<<"<", "/">>), TextDoc(el.name), TextDoc(<<">">>)>>))

pretty_node(node, cfg) ==
  CASE node.kind = "Comment" -> pretty_comment(node.body, cfg)
    [] node.kind = "Doctype" -> pretty_doctype(node.legacy)
    [] node.kind = "Text" -> pretty_text(node.body)
    [] OTHER -> pretty_element(node, cfg)

\* The document of a node sequence: every node followed by line_.
PrettyNodes(nodes, cfg) ==
  Cat([i \in 1..Len(nodes) |-> Cat(<<pretty_node(nodes[i], cfg), Line_>>)])

\* format: the parsed nodes rendered; the remainder of the parse is dropped.
format(s, cfg) ==
  Bind(parse_many(s), LAMBDA p :
  Ok(<<>>, RenderDoc(PrettyNodes(p.val, cfg), cfg.line_width)))

(***************************************************************************)
(* The inputs                                                              *)
(***************************************************************************)
\* Configuration::default(): line_width 80, indent_width 2.
DefaultLineWidth == 80
DefaultIndentWidth == 2
\* A narrow line, to make groups break.
NarrowLineWidth == 6

DefaultConfig == [line_width |-> DefaultLineWidth, indent_width |-> DefaultIndentWidth]
NarrowConfig == [line_width |-> NarrowLineWidth, indent_width |-> DefaultIndentWidth]

\* The texts made of at most n fragments of F.
RECURSIVE FragTexts(_, _)
FragTexts(F, n) ==
  IF n = 0 THEN {<<>>}
  ELSE LET shorter == FragTexts(F, n - 1)
       IN shorter \cup {t \o f : t \in shorter, f \in F}

\* Documents: at most MaxFrags of these fragments.
MaxFrags == 3
DocFrags ==
  { <<"<", "F", "o", "o", ">">>, <<"<", "/", "F", "o", "o", ">">>,
    <<"<", "/", "f", "o", "o", ">">>, <<"<", "b", "r", ">">>,
    <<"<", "b", "r", "/", ">">>, <<"<">>, <<"a">>, <<" ">>, <<"\n">>,
    <<"<", "!", "-", "-">>, <<"-", "-", ">">> }
DocInputs == FragTexts(DocFrags, MaxFrags)

\* Comments: the delimiters around at most MaxBody characters, and a tail.
MaxBody == 4
CommentChars == {<<" ">>, <<"\n">>, <<"a">>}
CommentTails == {<<>>, <<"a">>, CommentClose}
CommentInputs ==
  {CommentOpen \o b \o CommentClose \o t :
     b \in FragTexts(CommentChars, MaxBody), t \in CommentTails}

\* Attributes for parse_attribute: the name `a`, optionally `=` with optional
\* whitespace around it, and at most MaxVal characters.
MaxVal == 3
ValueChars ==
  {<<"\"">>, <<"'">>, <<"x">>, <<"=">>, <<"/">>, <<" ">>, <<"<">>, <<">">>, <<Backtick>>}
AttrInputs ==
  {<<"a">> \o e \o v :
     e \in {<<>>, <<"=">>, <<" ", "=">>, <<"=", " ">>},
     v \in FragTexts(ValueChars, MaxVal)}

\* Start tags: a name, at most MaxAttrs attributes as written, the end of the
\* tag, and what follows it.  A written attribute is its text and the pair
\* it stands for.
MaxAttrs == 2
TagNames == {<<"b", "r">>, <<"B", "r">>, <<"a">>}
Written(text, name, value) == [text |-> text, attr |-> [name |-> name, value |-> value]]
AttrForms ==
  { Written(<<" ", "a">>, <<"a">>, <<>>),
    Written(<<" ", "b", "=", "\"", "1", "\"">>, <<"b">>, << <<"1">> >>),
    Written(<<" ", "\n", "a", "=", "'", "2", "'">>, <<"a">>, << <<"2">> >>),
    Written(<<" ", "b", " ", "=", " ", "3">>, <<"b">>, << <<"3">> >>) }
RECURSIVE FormSeqs(_)
FormSeqs(n) ==
  IF n = 0 THEN {<<>>}
  ELSE LET shorter == FormSeqs(n - 1)
       IN shorter \cup {Append(fs, f) : fs \in shorter, f \in AttrForms}
RECURSIVE WrittenText(_)
WrittenText(fs) == IF fs = <<>> THEN <<>> ELSE fs[1].text \o WrittenText(Tail(fs))
WrittenAttrs(fs) == [i \in 1..Len(fs) |-> fs[i].attr]
TagEnds == {<<">">>, <<"/", ">">>, <<" ", "/", ">">>}
TagTails == {<<>>, <<"x", "<", "/", "a", ">">>}
\* What was written, as <<text of the attributes, the pairs>>.
WrittenTable == {<<WrittenText(fs), WrittenAttrs(fs)>> : fs \in FormSeqs(MaxAttrs)}
TagInputs ==
  {<<"<">> \o n \o w[1] \o e \o t :
     n \in TagNames, w \in WrittenTable, e \in TagEnds, t \in TagTails}

\* Doctype declarations, well and badly formed.
DoctypeInputs ==
  {<<"<", "!">> \o k \o w \o h \o l \o e :
     k \in {DoctypeWord, ToAsciiLowercase(DoctypeWord), <<"D", "O", "C">>},
     w \in {<<" ">>, <<>>, <<"\n", " ">>},
     h \in {HtmlWord, <<"H", "T", "M", "L">>, <<"h", "t", "m">>},
     l \in {<<>>, <<" ">>,
            <<" ">> \o SystemWord \o <<" ", "\"">> \o LegacyCompat \o <<"\"">>,
            <<" ">> \o ToAsciiLowercase(SystemWord) \o <<"\n", "'">> \o LegacyCompat \o <<"'">>,
            <<" ">> \o SystemWord \o <<" ", "\"">> \o LegacyCompat \o <<"'">>,
            <<" ">> \o SystemWord \o <<"\"">> \o LegacyCompat \o <<"\"">>,
            SystemWord \o <<" ", "\"">> \o LegacyCompat \o <<"\"">>,
            <<" ">> \o SystemWord \o <<" ", "\"", "a", "b", "o", "u", "t", "\"">>},
     e \in {<<">">>, <<" ", ">">>, <<">", "a">>, <<>>}}

\* Elements as Element::parse returns them, for pretty_element: a Normal
\* element `a` of at most MaxChildren children, no two Text nodes next to
\* each other (Node::parse_text takes a whole run of text).
MaxChildren == 2
VoidBr == [kind |-> "Void", name |-> <<"b", "r">>, attributes |-> <<>>]
NormalB(content) ==
  [kind |-> "Normal", name |-> <<"b">>, attributes |-> <<>>, content |-> content]
ChildNodes ==
  { VoidBr, Text(<<"x">>), Text(<<"x", " ", "y">>),
    [kind |-> "Comment", body |-> <<"c">>],
    [kind |-> "Comment", body |-> <<"c", "\n", "d">>],
    NormalB(<<VoidBr>>), NormalB(<<Text(<<"x">>)>>), NormalB(<<>>) }
\* Whether c may follow the nodes ns.
MayFollow(ns, c) == ~(c.kind = "Text" /\ ns # <<>> /\ ns[Len(ns)].kind = "Text")
RECURSIVE NodeSeqs(_)
NodeSeqs(n) ==
  IF n = 0 THEN {<<>>}
  ELSE LET shorter == NodeSeqs(n - 1)
       IN shorter \cup
          {q \in {Append(ns, c) : ns \in shorter, c \in ChildNodes} :
             MayFollow(SubSeq(q, 1, Len(q) - 1), q[Len(q)])}
ElementInputs ==
  {[kind |-> "Normal", name |-> <<"a">>, attributes |-> <<>>, content |-> c] :
     c \in NodeSeqs(MaxChildren)}

(***************************************************************************)
(* The state machine: an entry point is called on the input and returns.   *)
(***************************************************************************)
InitWith(inputs, configs) ==
  /\ input \in inputs
  /\ config \in configs
  /\ pc = "ready"
  /\ fn = "none"
  /\ result = Err
  /\ prev = <<>>
  /\ m_remaining = <<>>
  /\ m_buffer = <<>>
  /\ t_index = 0

Call(name, r) ==
  /\ pc = "ready"
  /\ pc' = "returned"
  /\ fn' = name
  /\ result' = r
  /\ UNCHANGED <<input, config, prev, m_remaining, m_buffer, t_index>>

CallCommentParse == Call("Comment::parse", CommentParse(input))
CallDoctypeParse == Call("Doctype::parse", DoctypeParse(input))
CallParseAttribute == Call("parse_attribute", parse_attribute(input))
CallParseEndTag == Call("Element::parse_end_tag", parse_end_tag(input))
CallElementParse == Call("Element::parse", ElementParse(input))
CallParseMany == Call("Node::parse_many", parse_many(input))
CallFormat == Call("format", format(input, config))

\* The formatter is run again, on the text it produced.
Reformat ==
  /\ pc = "returned"
  /\ fn = "format"
  /\ IsOk(result)
  /\ prev = <<>>
  /\ input' = result.val
  /\ prev' = <<input>>
  /\ result' = format(result.val, config)
  /\ UNCHANGED <<config, pc, fn, m_remaining, m_buffer, t_index>>

Returned(name) == pc = "returned" /\ fn = name

\* Documents.
Init == InitWith(DocInputs, {DefaultConfig, NarrowConfig})
Next ==
  \/ CallParseEndTag
  \/ CallElementParse
  \/ CallParseMany
  \/ CallFormat
  \/ Reformat
Spec == Init /\ [][Next]_vars

\* Comments.
InitComment == InitWith(CommentInputs, {DefaultConfig})
NextComment ==
  \/ CallCommentParse
  \/ CallParseMany
  \/ CallFormat
  \/ Reformat
SpecComment == InitComment /\ [][NextComment]_vars

\* Attributes.
InitAttr == InitWith(AttrInputs, {DefaultConfig})
NextAttr == CallParseAttribute
SpecAttr == InitAttr /\ [][NextAttr]_vars

\* Start tags.
InitTag == InitWith(TagInputs, {DefaultConfig, NarrowConfig})
NextTag ==
  \/ CallElementParse
  \/ CallFormat
  \/ Reformat
SpecTag == InitTag /\ [][NextTag]_vars

\* Doctype declarations.
InitDoctype == InitWith(DoctypeInputs, {DefaultConfig})
NextDoctype ==
  \/ CallDoctypeParse
  \/ CallFormat
  \/ Reformat
SpecDoctype == InitDoctype /\ [][NextDoctype]_vars

\* pretty_element on elements, the input being the element.
CallPrettyElement ==
  Call("pretty_element",
       Ok(<<>>, RenderDoc(pretty_element(input, config), config.line_width)))
InitContent == InitWith(ElementInputs, {DefaultConfig, NarrowConfig})
NextContent == CallPrettyElement
SpecContent == InitContent /\ [][NextContent]_vars

(***************************************************************************)
(* Node::parse_many and Node::parse_text, one loop iteration a step:       *)
(* pc = "loop" at the head of the loop of parse_many, pc = "scan" at the   *)
(* head of the loop of parse_text.  The parsers that an iteration calls    *)
(* are evaluated within the step.                                          *)
(***************************************************************************)
\* Documents for the loops: at most MaxLoopFrags of these fragments.
MaxLoopFrags == 3
LoopFrags ==
  { <<"<", "F", "o", "o", ">">>, <<"<", "/", "F", "o", "o", ">">>,
    <<"<", "b", "r", ">">>, <<"<">>, <<"a">>, <<" ">>,
    <<"<", "!", "-", "-", "a", "-", "-", ">">>,
    <<"<", "!", "-", "-", "a", "\n", "a", "-", "-", ">">> }
LoopInputs == FragTexts(LoopFrags, MaxLoopFrags)

\* What Element::parse_end_tag and Node::parse_non_text return on the texts a
\* run can hand them, the suffixes of the inputs: computed once, looked up in
\* every step.
LoopTexts == UNION {{Drop(s, k) : k \in 0..Len(s)} : s \in LoopInputs}
EndTagOf == [s \in LoopTexts |-> parse_end_tag(s)]
NonTextOf == [s \in LoopTexts |-> parse_non_text(s)]

\* let mut remaining = input.trim_start(); let mut buffer = Vec::new();
EnterParseMany ==
  /\ pc = "ready"
  /\ pc' = "loop"
  /\ fn' = "Node::parse_many"
  /\ m_remaining' = TrimStart(input)
  /\ m_buffer' = <<>>
  /\ t_index' = 0
  /\ UNCHANGED <<input, config, result, prev>>

\* break with a value, or the unwinding of a panic.
Return(r) ==
  /\ pc' = "returned"
  /\ result' = r
  /\ UNCHANGED <<input, config, fn, prev, m_remaining, m_buffer, t_index>>

\* The next turn of the loop of parse_many.
Continue(rest, nodes) ==
  /\ pc' = "loop"
  /\ m_remaining' = TrimStart(rest)
  /\ m_buffer' = nodes
  /\ t_index' = 0
  /\ UNCHANGED <<input, config, fn, result, prev>>

AtEndTag == IsOk(EndTagOf[m_remaining])
NonText == NonTextOf[TrimStart(m_remaining)]

LoopEndTag ==
  /\ pc = "loop"
  /\ AtEndTag
  /\ Return(Ok(m_remaining, m_buffer))

LoopEof ==
  /\ pc = "loop"
  /\ ~AtEndTag
  /\ m_remaining = <<>>
  /\ Return(Ok(<<>>, m_buffer))

LoopNode ==
  /\ pc = "loop"
  /\ ~AtEndTag
  /\ m_remaining # <<>>
  /\ IsOk(NonText)
  /\ Continue(NonText.rest, Append(m_buffer, NonText.val))

LoopPanic ==
  /\ pc = "loop"
  /\ ~AtEndTag
  /\ m_remaining # <<>>
  /\ NonText.st = "Panic"
  /\ Return(Panic)

\* Self::parse_text(remaining)?: fail on an empty input, else the scan starts.
LoopText ==
  /\ pc = "loop"
  /\ ~AtEndTag
  /\ m_remaining # <<>>
  /\ NonText.st = "Err"
  /\ IF TrimStart(m_remaining) = <<>>
     THEN Return(Err)
     ELSE /\ pc' = "scan"
          /\ t_index' = 0
          /\ UNCHANGED <<input, config, fn, result, prev, m_remaining, m_buffer>>

\* The input of parse_text, the position of the next `<` from t_index on, and
\* what is parsed there.
ScanText == TrimStart(m_remaining)
ScanFound == t_index <= Len(ScanText) /\ Find(Drop(ScanText, t_index), <<"<">>) >= 0
ScanAt == t_index + Find(Drop(ScanText, t_index), <<"<">>)
ScanEndTagHere == IsOk(EndTagOf[Drop(ScanText, ScanAt)])
ScanNonText == NonTextOf[Drop(ScanText, ScanAt)]
ScanBody == Text(TrimEnd(Take(ScanText, ScanAt)))

\* A bug: the t_index left on the `<` that parsed as nothing.
AdvanceNot(at) == at

\* index += 1, after index += delta
Advance(at) == at + 1

ScanEof ==
  /\ pc = "scan"
  /\ ~ScanFound
  /\ Continue(<<>>, Append(m_buffer, Text(TrimEnd(ScanText))))

ScanEndTag ==
  /\ pc = "scan"
  /\ ScanFound
  /\ ScanEndTagHere
  /\ Continue(Drop(ScanText, ScanAt), Append(m_buffer, ScanBody))

ScanNode ==
  /\ pc = "scan"
  /\ ScanFound
  /\ ~ScanEndTagHere
  /\ IsOk(ScanNonText)
  /\ Continue(ScanNonText.rest, m_buffer \o <<ScanBody, ScanNonText.val>>)

ScanPanic ==
  /\ pc = "scan"
  /\ ScanFound
  /\ ~ScanEndTagHere
  /\ ScanNonText.st = "Panic"
  /\ Return(Panic)

ScanAdvance ==
  /\ pc = "scan"
  /\ ScanFound
  /\ ~ScanEndTagHere
  /\ ScanNonText.st = "Err"
  /\ t_index' = Advance(ScanAt)
  /\ UNCHANGED <<input, config, pc, fn, result, prev, m_remaining, m_buffer>>

InitLoop == InitWith(LoopInputs, {DefaultConfig})
NextLoop ==
  \/ EnterParseMany
  \/ LoopEndTag
  \/ LoopEof
  \/ LoopNode
  \/ LoopPanic
  \/ LoopText
  \/ ScanEof
  \/ ScanEndTag
  \/ ScanNode
  \/ ScanPanic
  \/ ScanAdvance
\* The loops run on: a call that can take a step takes one.
SpecLoop == InitLoop /\ [][NextLoop]_vars /\ WF_vars(NextLoop)

(***************************************************************************)
(* The claims                                                              *)
(***************************************************************************)
\* C1: format is idempotent: when format(x, c) returns Ok(y), format(y, c)
\* returns Ok(y) too.  After Reformat the input is y and the result is
\* format(y, c).
C1_FormatIdempotent ==
  (Returned("format") /\ prev # <<>>) => (IsOk(result) /\ result.val = input)

\* C2: Node::parse_many never fails: on every input it returns Ok with a node
\* sequence, and so format never ends in a parse error either.
C2_ParseManyNeverFails ==
  /\ Returned("Node::parse_many") => IsOk(result)
  /\ Returned("format") => IsOk(result)

\* The raw content of a comment: what lies between `<!--` and the first `-->`.
RawContent(s) ==
  Take(Drop(s, Len(CommentOpen)), Find(Drop(s, Len(CommentOpen)), CommentClose))

\* C3: on every input that starts with `<!--` and has a later `-->`,
\* Comment::parse returns Ok; the body is the trimmed raw content when that has
\* no newline, and otherwise the part of the raw content strictly between its
\* first and its last newline, the start t_index never exceeding the end t_index.
C3_CommentBodyAsSpecified ==
  (/\ Returned("Comment::parse")
   /\ StartsWith(input, CommentOpen)
   /\ Contains(Drop(input, Len(CommentOpen)), CommentClose))
  => LET raw == RawContent(input)
         first == Find(raw, <<"\n">>)
         last == RFind(raw, <<"\n">>)
     IN /\ IsOk(result)
        /\ IF ~Contains(Trim(raw), <<"\n">>)
           THEN result.val.body = Trim(raw)
           ELSE first + 1 <= last /\ result.val.body = SubSeq(raw, first + 2, last)
        /\ ~Contains(result.val.body, CommentClose)

\* C6: format never returns Ok while dropping a non-empty remainder of the
\* top-level parse: what parse_many left unconsumed is empty.
C6_FormatConsumesRemainder ==
  (Returned("format") /\ prev = <<>> /\ IsOk(result))
  => parse_many(input).rest = <<>>

\* C4: Element::parse returns a Normal element only when the end tag at which
\* the content parse stopped has a name equal, byte for byte, to the start-tag
\* name; it fails when that name differs (even in letter case only) or when no
\* end tag follows the content, and succeeds when the names are equal.
C4_NormalRequiresMatchingEndTag ==
  Returned("Element::parse") =>
    LET t == ParseStartTag(input)
        normal == IsOk(t) /\ ~IsVoid(t.val.name, t.val.self_closing)
        c == parse_many(t.rest)
        e == parse_end_tag(c.rest)
    IN /\ (IsOk(result) /\ result.val.kind = "Normal")
            => (normal /\ IsOk(c) /\ IsOk(e) /\ e.val = t.val.name)
       /\ (normal /\ IsOk(c))
            => IF IsOk(e) /\ e.val = t.val.name
               THEN result = Ok(e.rest, [kind |-> "Normal", name |-> t.val.name,
                                         attributes |-> t.val.attributes,
                                         content |-> c.val])
               ELSE result.st = "Err"

\* A start tag `<Foo>` whose content ends at `</foo>`: Element::parse failed.
C4_CaseMismatchFails ==
  /\ Returned("Element::parse")
  /\ result.st = "Err"
  /\ LET t == ParseStartTag(input)
         e == parse_end_tag(parse_many(t.rest).rest)
     IN /\ IsOk(t) /\ IsOk(parse_many(t.rest)) /\ IsOk(e)
        /\ e.val # t.val.name
        /\ ToAsciiLowercase(e.val) = ToAsciiLowercase(t.val.name)

\* The text of the start tag that ParseStartTag consumed.
TagText(s, t) == Take(s, Len(s) - Len(t.rest))

\* The input with the character before the `>` of its start tag removed.
WithoutSolidus(s, t) ==
  Take(s, Len(TagText(s, t)) - 2) \o Drop(s, Len(TagText(s, t)) - 1)

\* C5, as claimed: for every well-formed start tag, Element::parse returns a
\* Void element if and only if the lowercased name is a void name or the tag
\* ends with `/>`; it then consumes exactly the start tag; and a void-named tag
\* ending with `/>` yields the same node as the tag without that `/`.
C5_VoidIffTagEndsWithSolidus ==
  (Returned("Element::parse") /\ IsOk(ParseStartTag(input))) =>
    LET t == ParseStartTag(input)
        named == ToAsciiLowercase(t.val.name) \in VoidNames
        slashed == EndsWith(TagText(input, t), <<"/", ">">>)
    IN /\ (IsOk(result) /\ result.val.kind = "Void") <=> (named \/ slashed)
       /\ (named \/ slashed) => result.rest = t.rest
       /\ (named /\ slashed)
            => ElementParse(WithoutSolidus(input, t)) = Ok(t.rest, result.val)

\* C5, amended: Element::parse returns a Void element if and only if the
\* lowercased name is a void name or the optional `/` before `>` was parsed (a
\* `/` that directly follows an unquoted attribute value is part of the value);
\* the Void element is the name and the attributes, with exactly the start tag
\* consumed; and a void-named tag with a parsed `/` yields the same node, and so
\* the same document, as the tag without that `/`.
C5_VoidIffNameOrSolidus ==
  (Returned("Element::parse") /\ IsOk(ParseStartTag(input))) =>
    LET t == ParseStartTag(input)
        named == ToAsciiLowercase(t.val.name) \in VoidNames
        slashed == t.val.self_closing
    IN /\ (IsOk(result) /\ result.val.kind = "Void") <=> (named \/ slashed)
       /\ (named \/ slashed)
            => result = Ok(t.rest, [kind |-> "Void", name |-> t.val.name,
                                    attributes |-> t.val.attributes])
       /\ (named /\ slashed)
            => /\ ElementParse(WithoutSolidus(input, t)) = Ok(t.rest, result.val)
               /\ EndsWith(TagText(input, t), <<"/", ">">>)

\* A void name written `Br`, with attributes and a parsed `/`: a Void element.
C5_SelfClosedVoidName ==
  /\ Returned("Element::parse")
  /\ IsOk(result) /\ result.val.kind = "Void"
  /\ result.val.name = <<"B", "r">>
  /\ result.val.attributes # <<>>
  /\ IsOk(ParseStartTag(input)) /\ ParseStartTag(input).val.self_closing

\* The pairs a written attribute list stands for when the tag ends with e: a
\* `/` that directly follows an unquoted value belongs to that value.
Absorbed(w, e) ==
  /\ e = <<"/", ">">>
  /\ w[2] # <<>>
  /\ w[2][Len(w[2])].value # <<>>
  /\ EndsWith(w[1], w[2][Len(w[2])].value[1])
ExpectedAttrs(w, e) ==
  IF Absorbed(w, e)
  THEN [w[2] EXCEPT ![Len(w[2])].value = << @[1] \o <<"/">> >>]
  ELSE w[2]

\* An attribute as it is rendered: name, or name="value".
AttrText(a) ==
  a.name \o (IF a.value = <<>> THEN <<>> ELSE <<"=", "\"">> \o a.value[1] \o <<"\"">>)
RECURSIVE JoinAttrs(_, _)
JoinAttrs(attrs, sep) ==
  IF attrs = <<>> THEN <<>>
  ELSE sep \o AttrText(attrs[1]) \o JoinAttrs(Tail(attrs), sep)

\* C7: the attributes Element::parse returns are the pairs of the source in
\* source order, repeated names kept as separate entries; and the rendering of
\* the element lists them in that order, all on the line of the tag name or
\* each on a line of its own.
C7_AttributesInSourceOrder ==
  (Returned("Element::parse") /\ IsOk(result)) =>
    \A n \in TagNames, w \in WrittenTable, e \in TagEnds :
      StartsWith(input, <<"<">> \o n \o w[1] \o e) =>
        LET attrs == ExpectedAttrs(w, e)
            rendering == RenderDoc(pretty_element(result.val, config), config.line_width)
            indent == <<"\n">> \o Spaces(config.indent_width)
        IN /\ result.val.name = n
           /\ result.val.attributes = attrs
           /\ \/ StartsWith(rendering, <<"<">> \o n \o JoinAttrs(attrs, <<" ">>))
              \/ StartsWith(rendering, <<"<">> \o n \o JoinAttrs(attrs, indent) \o <<"\n">>)

\* An element parsed with the same attribute name twice.
C7_RepeatedName ==
  /\ Returned("Element::parse")
  /\ IsOk(result)
  /\ Len(result.val.attributes) = 2
  /\ result.val.attributes[1].name = result.val.attributes[2].name
  /\ result.val.attributes[1].value # result.val.attributes[2].value

\* What parse_attribute returns on s when an unquoted value is the longest
\* non-empty run of characters outside `excluded`.
ExpectedAttribute(s, excluded) ==
  LET n == parse_attribute_name(s)
      none == Ok(n.rest, [name |-> n.val, value |-> <<>>])
      eq == SkipWhitespace(n.rest)
      v == SkipWhitespace(Drop(eq, 1))
      quoted(q) == StartsWith(v, <<q>>) /\ Contains(Drop(v, 1), <<q>>)
      close(q) == Find(Drop(v, 1), <<q>>)
      some(len, from, to) ==
        Ok(Drop(v, len), [name |-> n.val, value |-> <<SubSeq(v, from, to)>>])
      run == PrefixLen(v, LAMBDA c : c \notin excluded)
  IN IF ~StartsWith(eq, <<"=">>) THEN none
     ELSE IF quoted("\"") THEN some(close("\"") + 2, 2, close("\"") + 1)
     ELSE IF quoted("'") THEN some(close("'") + 2, 2, close("'") + 1)
     ELSE IF run > 0 THEN some(run, 1, run)
     ELSE none

AsciiWhitespace == {" ", "\t", "\n", "\f", "\r"}

\* C8, as claimed: after `=` the value is double-quoted, else single-quoted,
\* else the longest non-empty run of characters other than ASCII whitespace,
\* `"`, `'`, `<`, `>` and the backtick (so `=` and `/` are part of an unquoted
\* value); with no value the result is (name, None).
C8_UnquotedAcceptsEquals ==
  Returned("parse_attribute") =>
    result = ExpectedAttribute(input, AsciiWhitespace \cup {"\"", "'", "<", ">", Backtick})

\* C8, amended: the same, the excluded characters of an unquoted value being
\* ASCII whitespace, `"`, `'`, `<`, `=`, `>` and the backtick: `/` is part of
\* an unquoted value, `=` ends it.
C8_UnquotedExcludesEquals ==
  Returned("parse_attribute") =>
    result = ExpectedAttribute(input,
                               AsciiWhitespace \cup {"\"", "'", "<", "=", ">", Backtick})

\* An unquoted value that holds a `/` and ends before a `=`.
C8_ValueEndsAtEquals ==
  /\ Returned("parse_attribute")
  /\ IsOk(result)
  /\ result.val.value = << <<"x", "/">> >>
  /\ StartsWith(result.rest, <<"=">>)

\* C9: on every input Doctype::parse accepts, legacy is true if and only if
\* the quoted about:legacy-compat string was present; the declaration formats
\* to the fixed literal with double quotes; and Doctype::parse of that
\* rendering yields the same Doctype.
C9_DoctypeRoundTrip ==
  (Returned("Doctype::parse") /\ IsOk(result)) =>
    LET declaration == Take(input, Len(input) - Len(result.rest))
        present == \/ Contains(declaration, <<"\"">> \o LegacyCompat \o <<"\"">>)
                   \/ Contains(declaration, <<"'">> \o LegacyCompat \o <<"'">>)
        plain == <<"<", "!", "D", "O", "C", "T", "Y", "P", "E", " ", "h", "t", "m", "l">>
        literal == IF result.val.legacy
                   THEN plain \o <<" ", "S", "Y", "S", "T", "E", "M", " ", "\"">>
                          \o LegacyCompat \o <<"\"", ">">>
                   ELSE plain \o <<">">>
    IN /\ result.val.legacy <=> present
       /\ format(declaration, config) = Ok(<<>>, literal \o <<"\n">>)
       /\ DoctypeParse(literal) = Ok(<<>>, result.val)

\* A single-quoted legacy string in lower case was accepted as legacy.
C9_SingleQuotedLegacy ==
  /\ Returned("Doctype::parse")
  /\ IsOk(result) /\ result.val.legacy
  /\ Contains(input, <<"'">> \o LegacyCompat \o <<"'">>)

\* The bodies of the Text nodes of a node sequence, at any depth.
RECURSIVE TextBodies(_)
TextBodies(nodes) ==
  UNION { IF nodes[i].kind = "Text" THEN {nodes[i].body}
          ELSE IF nodes[i].kind = "Normal" THEN TextBodies(nodes[i].content)
          ELSE {} : i \in 1..Len(nodes) }

\* Whether Element::parse_end_tag succeeds at some position of s.
HoldsEndTag(s) == \E at \in 0..(Len(s) - 1) : IsOk(parse_end_tag(Drop(s, at)))

\* C10: Node::parse_many stops at the first valid end tag it reaches and leaves
\* it unconsumed: the remainder it returns is a suffix of the input that is
\* empty or begins with a valid end tag, and no Text node, at any depth, holds
\* a position at which Element::parse_end_tag succeeds.
C10_StopsAtEndTag ==
  (Returned("Node::parse_many") /\ IsOk(result)) =>
    /\ result.rest = <<>> \/ IsOk(parse_end_tag(result.rest))
    /\ EndsWith(input, result.rest)
    /\ \A body \in TextBodies(result.val) : ~HoldsEndTag(body)

\* A parse that returned a Text node and stopped at an end tag with text
\* after it.
C10_TextThenEndTag ==
  /\ Returned("Node::parse_many")
  /\ IsOk(result)
  /\ TextBodies(result.val) # {}
  /\ IsOk(parse_end_tag(result.rest))
  /\ parse_end_tag(result.rest).rest # <<>>

\* Whether a node has no Text child at all although it has children.
OnlyNonText(nodes) == nodes # <<>> /\ \A i \in 1..Len(nodes) : nodes[i].kind # "Text"

\* Whether nothing in a node forces a line break: no comment of several
\* lines and no element whose children are all non-text.
RECURSIVE MayBeFlat(_)
MayBeFlat(node) ==
  CASE node.kind = "Comment" -> Len(Lines(node.body)) < 2
    [] node.kind = "Normal" ->
         /\ ~OnlyNonText(node.content)
         /\ \A i \in 1..Len(node.content) : MayBeFlat(node.content[i])
    [] OTHER -> TRUE

RECURSIVE JoinWords(_)
JoinWords(w) ==
  IF w = <<>> THEN <<>>
  ELSE IF Len(w) = 1 THEN w[1]
  ELSE w[1] \o <<" ">> \o JoinWords(Tail(w))

\* A node written on one line.
RECURSIVE FlatText(_)
RECURSIVE FlatTexts(_)
FlatText(node) ==
  CASE node.kind = "Text" -> JoinWords(Words(node.body))
    [] node.kind = "Comment" ->
         IF node.body = <<>> THEN <<"<", "!", "-", "-", "-", "-", ">">>
         ELSE <<"<", "!", "-", "-", " ">> \o node.body \o <<" ", "-", "-", ">">>
    [] node.kind = "Doctype" -> DoctypeLiteral(node.legacy)
    [] node.kind = "Void" ->
         <<"<">> \o node.name \o JoinAttrs(node.attributes, <<" ">>) \o <<"/", ">">>
    [] OTHER ->
         <<"<">> \o node.name \o JoinAttrs(node.attributes, <<" ">>) \o <<">">>
           \o FlatTexts(node.content) \o <<"<", "/">> \o node.name \o <<">">>
FlatTexts(nodes) ==
  IF nodes = <<>> THEN <<>> ELSE FlatText(nodes[1]) \o FlatTexts(Tail(nodes))

\* The children, each on a line of its own that starts at column indent.
RECURSIVE OwnLines(_, _, _, _)
OwnLines(nodes, indent, cfg, i) ==
  IF i > Len(nodes) THEN <<>>
  ELSE <<"\n">> \o Spaces(indent)
         \o Render(<< <<indent, "Break", pretty_node(nodes[i], cfg)>> >>, indent, <<>>,
                   cfg.line_width)
         \o OwnLines(nodes, indent, cfg, i + 1)

\* C11: for a Normal element whose content is non-empty and holds no Text
\* node, the rendering is the start tag, then every child on a line of its own
\* indented by indent_width, then the end tag on a line of its own, whatever
\* the line width; an element that holds a Text node, with nothing in it that
\* forces a break, is rendered on one line when that line fits the width.
C11_NonTextChildrenOnOwnLines ==
  Returned("pretty_element") =>
    LET el == input
        out == result.val
        hasText == \E i \in 1..Len(el.content) : el.content[i].kind = "Text"
    IN /\ OnlyNonText(el.content)
            => out = <<"<">> \o el.name \o <<">">>
                       \o OwnLines(el.content, config.indent_width, config, 1)
                       \o <<"\n", "<", "/">> \o el.name \o <<">">>
       /\ (hasText /\ MayBeFlat(el) /\ Len(FlatText(el)) <= config.line_width)
            => out = FlatText(el)

\* An element of two non-text children that would fit on one line of the
\* configured width.
C11_ForcedThoughItFits ==
  /\ Returned("pretty_element")
  /\ Len(input.content) = 2
  /\ OnlyNonText(input.content)
  /\ \A i \in 1..2 : MayBeFlat(input.content[i])
  /\ Len(FlatText(input)) <= config.line_width
  /\ Contains(result.val, <<"\n">>)

\* A step of the loops makes progress: a turn of the loop of parse_many that
\* does not return leaves a strictly shorter m_remaining input; parse_text is
\* entered on a non-empty input that starts with a non-whitespace character,
\* and the turn it ends pushes a non-empty Text node; a turn of the scan that
\* does not end it strictly advances the t_index, within the input.
ProgressStep ==
  /\ (pc = "loop" /\ pc' = "loop") => Len(m_remaining') < Len(m_remaining)
  /\ (pc = "loop" /\ pc' = "scan")
       => /\ m_remaining # <<>>
          /\ ~IsWhitespace(m_remaining[1])
          /\ m_remaining' = m_remaining
  /\ (pc = "scan" /\ pc' = "loop")
       => /\ Len(m_remaining') < Len(m_remaining)
          /\ Len(m_buffer') > Len(m_buffer)
          /\ m_buffer'[Len(m_buffer) + 1].kind = "Text"
          /\ m_buffer'[Len(m_buffer) + 1].body # <<>>
  /\ (pc = "scan" /\ pc' = "scan")
       => /\ t_index' > t_index
          /\ t_index' <= Len(m_remaining)
          /\ m_remaining' = m_remaining

\* The parse_many that Element::parse calls for the content of an element
\* starting here gets a strictly shorter input than the one being parsed.
NestedCallShorter ==
  (pc = "loop" /\ IsOk(ParseStartTag(m_remaining)))
    => Len(ParseStartTag(m_remaining).rest) < Len(m_remaining)

\* C12: Node::parse_many terminates on every input: every step of its loops
\* makes progress (ProgressStep), a nested call gets a shorter input, and the
\* call ends.
C12_ParseManyTerminates ==
  /\ [][ProgressStep]_vars
  /\ []NestedCallShorter
  /\ <>(pc = "returned")

\* A call that returned after several turns, one of them through parse_text
\* with a scan that went past a `<`.
C12_ReturnedAfterScan ==
  /\ pc = "returned"
  /\ fn = "Node::parse_many"
  /\ IsOk(result)
  /\ Len(result.val) >= 3
  /\ \E i \in 1..Len(result.val) :
       result.val[i].kind = "Text" /\ Contains(result.val[i].body, <<"<">>)
====
